---- MODULE Spec2Model ----
(***************************************************************************)
(* Model of swaps/get_routes_for_funding.js: the asyncAuto task graph that  *)
(* finds single-path or multi-path routes for funding a swap.               *)
(*                                                                          *)
(* Every action is one callback of the program (the request itself or the  *)
(* return of one collaborator call), run up to the next suspension point,   *)
(* so the tasks asyncAuto starts synchronously are part of the action.      *)
(***************************************************************************)
EXTENDS Integers, Sequences, FiniteSets, TLC

\* ------------------------------------------------------------------------
\* Values
\* ------------------------------------------------------------------------

\* An absent numeric argument (JS undefined)
undefined == -1

\* Default cap of the number of paths
defaultMaxPaths == 7

\* Bound: responses of the multi-path prober that carry neither probe nor error
MaxEmptyResponses == 1

\* Bound: number of routes the route synthesizer returns
MaxRoutes == 2

\* An absent error
NoError == <<0, "">>

\* Errors handed back by the collaborators
ProbeExecutorError == <<503, "ExecuteProbeFailure">>
SoftFailure == <<503, "RouteNotFound">>
ProberError == <<503, "MultiPathProbeFailure">>
ChannelError == <<503, "GetChannelFailure">>
WalletInfoError == <<503, "GetWalletInfoFailure">>
SynthesizerError == <<500, "MultiPathPaymentFailure">>

\* A route carries its fee; the rest of a route is passed through untouched
NoRoute == [fee |-> undefined]
SingleRoutes == {[fee |-> 1], [fee |-> 3]}
MultiRoutes == {[fee |-> 1], [fee |-> 2]}

\* Probes the multi-path prober can find
NoProbe ==
  [latency_ms |-> 0, relays |-> <<>>, route_maximum |-> undefined,
   success |-> <<>>]

ProbeChoices ==
  {[latency_ms |-> 5, relays |-> <<"r1">>, route_maximum |-> 1,
    success |-> <<"c1">>],
   [latency_ms |-> 7, relays |-> <<"r1", "r2">>, route_maximum |-> 2,
    success |-> <<"c1", "c2">>]}

\* Requests
Requests ==
  [cltv_delta: {undefined, 40},
   destination: {"", "D"},
   lnd: {"", "lnd"},
   logger: {"", "logger"},
   max_fee: {undefined, 2},
   max_paths: {undefined, 1, 2},
   out_through: {"", "P"},
   tokens: {undefined, 3}]

TaskNames ==
  {"validate", "getMultiSupport", "getSinglePath", "getMultiLimits",
   "getMultiPaths", "result"}

Collaborators ==
  {"getWalletVersion", "executeProbe", "multiPathProbe", "getChannel",
   "getWalletInfo", "multiPathPayment"}

\* ------------------------------------------------------------------------
\* Helpers of the source
\* ------------------------------------------------------------------------

\* arr.reduce((sum, n) => sum + n, Number()) over the first n elements
RECURSIVE reduceSum(_, _)
reduceSum(arr, n) == IF n = 0 THEN 0 ELSE reduceSum(arr, n - 1) + arr[n]

sumOf(arr) == reduceSum(arr, Len(arr))

\* [].concat(...arr) over the first n elements
RECURSIVE concat(_, _)
concat(arr, n) == IF n = 0 THEN <<>> ELSE concat(arr, n - 1) \o arr[n]

flatten(arr) == concat(arr, Len(arr))

uniq(arr) == {arr[i] : i \in DOMAIN arr}

Map(arr, F(_)) == [i \in DOMAIN arr |-> F(arr[i])]

\* JS !n of a number or absent number
NotNum(n) == n = undefined \/ n = 0

\* JS !s of a string or absent string
NotStr(s) == s = ""

\* JS a > b where b may be absent: a comparison with undefined is false
GreaterThan(a, b) == b # undefined /\ a > b

\* ------------------------------------------------------------------------
\* State
\* ------------------------------------------------------------------------

VARIABLES
  args,        \* the request
  task,        \* asyncAuto: state of every named task
  results,     \* asyncAuto: the results of the tasks that completed
  hasError,    \* asyncAuto: a task failed, no further task is started
  outcome,     \* returnResult: what the request resolved or rejected with
  probes,      \* getMultiLimits: probes accumulated by the loop
  error,       \* getMultiLimits: soft failure recorded by the loop
  pendingIds,  \* getMultiPaths: channel ids whose getChannel is in flight
  inflight,    \* number of calls of every collaborator that did not return
  probeArgs,   \* getMultiLimits: the probes given to the last multiPathProbe
  calls,       \* number of invocations of every collaborator
  replies,     \* what every collaborator last answered
  balanceArgs,      \* get_balance: the request
  balanceTask,      \* get_balance: asyncAuto, state of every named task
  balanceResults,   \* get_balance: asyncAuto, the results of the queries
  balanceHasError,  \* get_balance: asyncAuto, a task failed
  balanceTokens,    \* get_balance: the tokens given to balanceFromTokens
  balanceOutcome    \* get_balance: what the request resolved or rejected with

balanceVars ==
  <<balanceArgs, balanceTask, balanceResults, balanceHasError, balanceTokens,
    balanceOutcome>>

routesVars ==
  <<args, task, results, hasError, outcome, probes, error, pendingIds,
    inflight, probeArgs, calls, replies>>

vars == <<routesVars, balanceVars>>

UndefinedLimits ==
  [defined |-> FALSE, latency_ms |-> 0, probes |-> <<>>, routes_max |-> 0]

UndefinedPaths == [defined |-> FALSE, routes |-> <<>>]

Pending == [kind |-> "pending", err |-> NoError, fee |-> 0, routes |-> <<>>]

Rejected(err) == [kind |-> "error", err |-> err, fee |-> 0, routes |-> <<>>]

Resolved(res) ==
  [kind |-> "result", err |-> NoError, fee |-> res.fee, routes |-> res.routes]

\* No task of a request for routes has run
RoutesIdle ==
  /\ task = [n \in TaskNames |-> "idle"]
  /\ results =
       [getMultiSupport |-> [is_multi_supported |-> FALSE],
        getSinglePath |-> [route |-> NoRoute],
        getMultiLimits |-> UndefinedLimits,
        getMultiPaths |-> UndefinedPaths]
  /\ hasError = FALSE
  /\ outcome = Pending
  /\ probes = <<>>
  /\ error = NoError
  /\ pendingIds = {}
  /\ inflight = [c \in Collaborators |-> 0]
  /\ probeArgs = <<>>
  /\ calls = [c \in Collaborators |-> 0]
  /\ replies = [c \in Collaborators |-> "none"]

\* get_balance: the tasks of asyncAuto and the four queries among them
BalanceTaskNames ==
  {"validate", "lnd", "getChainBalance", "getChanBalance", "getChannels",
   "getPending", "balance"}

BalanceQueries ==
  {"getChainBalance", "getChanBalance", "getChannels", "getPending"}

\* get_balance: the flags are booleans, FALSE also standing for an absent one
BalanceRequests ==
  [above : {undefined}, below : {undefined},
   is_confirmed : BOOLEAN, is_offchain_only : BOOLEAN,
   is_onchain_only : BOOLEAN, lnd : {"", "lnd"}]

NoBalance == [balance |-> 0, channel_balance |-> 0]

BalancePending == [kind |-> "pending", err |-> NoError, value |-> NoBalance]

\* No task of a request for the balance has run
BalanceIdle ==
  /\ balanceTask = [n \in BalanceTaskNames |-> "idle"]
  /\ balanceResults =
       [getChainBalance |-> [chain_balance |-> 0],
        getChanBalance |-> [channel_balance |-> 0, pending_balance |-> 0],
        getChannels |-> [channels |-> <<>>],
        getPending |-> [pending_chain_balance |-> 0]]
  /\ balanceHasError = FALSE
  /\ balanceTokens = <<>>
  /\ balanceOutcome = BalancePending

Init ==
  /\ args \in Requests
  /\ RoutesIdle
  /\ balanceArgs = CHOOSE a \in BalanceRequests : TRUE
  /\ BalanceIdle

\* The mutable part of the state as one value, so that the synchronous
\* continuation of a callback composes
Cur ==
  [task |-> task, results |-> results, hasError |-> hasError,
   outcome |-> outcome, probes |-> probes, error |-> error,
   pendingIds |-> pendingIds, inflight |-> inflight,
   probeArgs |-> probeArgs, calls |-> calls,
   replies |-> replies]

Commit(s) ==
  \E n \in {s} :
    /\ task' = n.task
    /\ results' = n.results
    /\ hasError' = n.hasError
    /\ outcome' = n.outcome
    /\ probes' = n.probes
    /\ error' = n.error
    /\ pendingIds' = n.pendingIds
    /\ inflight' = n.inflight
    /\ probeArgs' = n.probeArgs
    /\ calls' = n.calls
    /\ replies' = n.replies
    /\ args' = args
    /\ UNCHANGED balanceVars

\* The handler goes on in the state it has reached so far
Then(s, Continue(_)) == \E n \in {s} : Continue(n)

\* ------------------------------------------------------------------------
\* asyncAuto and returnResult
\* ------------------------------------------------------------------------

\* A collaborator is called
Invoke(s, c) ==
  [s EXCEPT !.inflight[c] = @ + 1, !.calls[c] = @ + 1]

\* A collaborator call returned
Return(s, c, reply) ==
  [s EXCEPT !.inflight[c] = @ - 1, !.replies[c] = reply]

\* A task called back without error: its result is kept
taskDone(s, name) == [s EXCEPT !.task[name] = "done"]

\* A task called back with an error: the request is rejected with it, once,
\* and no further task is started
taskFailed(s, name, err) ==
  [s EXCEPT !.task[name] = "failed",
            !.hasError = TRUE,
            !.outcome = IF @.kind = "pending" THEN Rejected(err) ELSE @]

\* ------------------------------------------------------------------------
\* The tasks
\* ------------------------------------------------------------------------

\* validate: the error of the request, if any
validate(a) ==
  IF NotNum(a.cltv_delta)
    THEN <<400, "ExpectedCltvDeltaToGetRoutesForFunding">>
  ELSE IF NotStr(a.destination)
    THEN <<400, "ExpectedDestinationToGetRoutesForFunding">>
  ELSE IF NotStr(a.lnd)
    THEN <<400, "ExpectedLndToGetRoutesForFunding">>
  ELSE IF NotStr(a.logger)
    THEN <<400, "ExpectedLoggerToGetRoutesForFunding">>
  ELSE IF NotNum(a.tokens)
    THEN <<400, "ExpectedTokensToGetRoutesForFunding">>
  ELSE NoError

\* Mutant of getMultiSupport: multi-path is taken as supported
getMultiSupportAlways(err) == [is_multi_supported |-> TRUE]

\* getMultiSupport: the callback of getWalletVersion
getMultiSupport(err) == [is_multi_supported |-> err = NoError]

\* Mutant of getSinglePath: a failure of executeProbe is taken as no route
getSinglePathSwallowingError(reply) ==
  IF reply.err # NoError
    THEN [err |-> NoError, value |-> [route |-> NoRoute]]
    ELSE [err |-> NoError, value |-> reply.res]

\* getSinglePath: the callback of executeProbe (the context payload of the
\* error is not kept)
getSinglePath(reply) ==
  IF reply.err # NoError
    THEN [err |-> <<503, "UnexpectedErrorFindingRouteToFundSwap">>,
          value |-> [route |-> NoRoute]]
    ELSE [err |-> NoError, value |-> reply.res]

\* Mutant of isMultiSkipped: a pinned exit does not skip the accumulator
isMultiSkippedIgnoringPin(support, a) == ~support.is_multi_supported

\* getMultiLimits: the early exits
isMultiSkipped(support, a) ==
  ~support.is_multi_supported \/ ~NotStr(a.out_through)

\* getMultiLimits: the path-count cap
maxPaths(a) == IF NotNum(a.max_paths) THEN defaultMaxPaths ELSE a.max_paths

\* Mutant of whilstTest: the number of probes is not compared with the cap
whilstTestNoCap(a, ps, e) == e = NoError

\* getMultiLimits: the test of asyncWhilst
whilstTest(a, ps, e) ==
  IF maxPaths(a) = Len(ps) THEN FALSE ELSE e = NoError

\* Mutant of whilstIteratee: the soft failure is not recorded
whilstIterateeDroppingReason(reply, ps, e) ==
  IF reply.err # NoError
    THEN [err |-> reply.err, probes |-> ps, error |-> e]
    ELSE [err |-> NoError,
          probes |-> IF reply.res.probe # NoProbe
                       THEN Append(ps, reply.res.probe) ELSE ps,
          error |-> e]

\* getMultiLimits: the callback of multiPathProbe in the iteratee
whilstIteratee(reply, ps, e) ==
  IF reply.err # NoError
    THEN [err |-> reply.err, probes |-> ps, error |-> e]
    ELSE [err |-> NoError,
          probes |-> IF reply.res.probe # NoProbe
                       THEN Append(ps, reply.res.probe) ELSE ps,
          error |-> IF reply.res.error # NoError
                      THEN reply.res.error ELSE e]

\* Mutant of probeSummary: the liquidity is taken from the latency
probeSummaryLatencyAsLiquidity(probe) ==
  [channels |-> probe.success, liquidity |-> probe.latency_ms,
   relays |-> probe.relays]

\* getMultiLimits: the summary of one probe
probeSummary(probe) ==
  [channels |-> probe.success, liquidity |-> probe.route_maximum,
   relays |-> probe.relays]

latencyOf(probe) == probe.latency_ms

routeMaximumOf(probe) == probe.route_maximum

\* Mutant of whilstCallback: a hard error of the prober ends the task
\* without error
whilstCallbackSwallowingError(err, ps, e) ==
  IF err # NoError \/ Len(ps) = 0
    THEN [err |-> IF err # NoError THEN NoError ELSE e,
          value |-> UndefinedLimits]
    ELSE [err |-> NoError,
          value |-> [defined |-> TRUE,
                     latency_ms |-> sumOf(Map(ps, latencyOf)),
                     probes |-> Map(ps, probeSummary),
                     routes_max |-> sumOf(Map(ps, routeMaximumOf))]]

\* Mutant of whilstCallback: a recorded reason fails the task also when
\* probes were accumulated
whilstCallbackFailingOnReason(err, ps, e) ==
  IF err # NoError THEN [err |-> err, value |-> UndefinedLimits]
  ELSE IF Len(ps) = 0 \/ e # NoError
    THEN [err |-> e, value |-> UndefinedLimits]
  ELSE [err |-> NoError,
        value |-> [defined |-> TRUE,
                   latency_ms |-> sumOf(Map(ps, latencyOf)),
                   probes |-> Map(ps, probeSummary),
                   routes_max |-> sumOf(Map(ps, routeMaximumOf))]]

\* Mutant of whilstCallback: no probe ends the task without error
whilstCallbackWithoutReason(err, ps, e) ==
  IF err # NoError THEN [err |-> err, value |-> UndefinedLimits]
  ELSE IF Len(ps) = 0 THEN [err |-> NoError, value |-> UndefinedLimits]
  ELSE [err |-> NoError,
        value |-> [defined |-> TRUE,
                   latency_ms |-> sumOf(Map(ps, latencyOf)),
                   probes |-> Map(ps, probeSummary),
                   routes_max |-> sumOf(Map(ps, routeMaximumOf))]]

\* getMultiLimits: the final callback of asyncWhilst
whilstCallback(err, ps, e) ==
  IF err # NoError THEN [err |-> err, value |-> UndefinedLimits]
  ELSE IF Len(ps) = 0 THEN [err |-> e, value |-> UndefinedLimits]
  ELSE [err |-> NoError,
        value |-> [defined |-> TRUE,
                   latency_ms |-> sumOf(Map(ps, latencyOf)),
                   probes |-> Map(ps, probeSummary),
                   routes_max |-> sumOf(Map(ps, routeMaximumOf))]]

\* Mutant of isInsufficient: the capacity is not compared with the amount
isInsufficientNoCapacityCheck(limits, a) == ~limits.defined

\* getMultiPaths: the early exit
isInsufficient(limits, a) ==
  ~limits.defined \/ limits.routes_max < a.tokens

channelsOf(summary) == summary.channels

\* getMultiPaths: the channels to fetch
channelIds(limits) == uniq(flatten(Map(limits.probes, channelsOf)))

feeOf(route) == route.fee

\* Mutant of selectPaths: the single-path route is preferred
selectPathsPreferSingle(multi, single) ==
  IF single.route # NoRoute
    THEN <<single.route>>
    ELSE IF multi.defined THEN multi.routes ELSE <<>>

\* result: the routes selected
selectPaths(multi, single) ==
  IF multi.defined
    THEN multi.routes
    ELSE SelectSeq(<<single.route>>, LAMBDA n : n # NoRoute)

\* Mutant of isUnaffordable: the fee of the paths is not compared
isUnaffordableNoFeeCheck(paths, a) == Len(paths) = 0

\* result: there is no path or the paths cost more than the maximum fee
isUnaffordable(paths, a) ==
  Len(paths) = 0 \/ GreaterThan(sumOf(Map(paths, feeOf)), a.max_fee)

\* Mutant of result: the fee of the result is the fee of the first path
resultFeeOfFirstPath(s) ==
  \E paths \in {selectPaths(s.results.getMultiPaths,
                            s.results.getSinglePath)} :
    IF isUnaffordable(paths, args)
      THEN Commit(taskFailed(s, "result",
                             <<503, "FailedToFindAPathToFundSwapOffchain">>))
      ELSE Commit([taskDone(s, "result") EXCEPT
                     !.outcome = Resolved([fee |-> feeOf(Head(paths)),
                                           routes |-> paths])])

\* result: the task
result(s) ==
  \E paths \in {selectPaths(s.results.getMultiPaths,
                            s.results.getSinglePath)} :
    IF isUnaffordable(paths, args)
      THEN Commit(taskFailed(s, "result",
                             <<503, "FailedToFindAPathToFundSwapOffchain">>))
      ELSE Commit([taskDone(s, "result") EXCEPT
                     !.outcome = Resolved([fee |-> sumOf(Map(paths, feeOf)),
                                           routes |-> paths])])

\* getMultiPaths: the task is started and runs to its first await
getMultiPaths(s) ==
  IF isInsufficient(s.results.getMultiLimits, args)
    THEN Then(taskDone(s, "getMultiPaths"), result)
    ELSE \E ids \in {channelIds(s.results.getMultiLimits)} :
           Commit([s EXCEPT !.task["getMultiPaths"] = "running",
                            !.pendingIds = ids,
                            !.inflight["getChannel"] = @ + Cardinality(ids),
                            !.calls["getChannel"] = @ + Cardinality(ids)])

\* getMultiLimits: the loop ended
whilstEnd(s, err) ==
  \E r \in {whilstCallback(err, s.probes, s.error)} :
    IF r.err # NoError
      THEN Commit(taskFailed(s, "getMultiLimits", r.err))
      ELSE Then([taskDone(s, "getMultiLimits") EXCEPT
                   !.results.getMultiLimits = r.value],
                getMultiPaths)

\* Mutant of whilst: two probes are started in one round
whilstTwoAtOnce(s) ==
  IF whilstTest(args, s.probes, s.error)
    THEN Commit([Invoke(Invoke(s, "multiPathProbe"), "multiPathProbe") EXCEPT
                   !.probeArgs = s.probes])
    ELSE whilstEnd(s, NoError)

\* getMultiLimits: one round of asyncWhilst
whilst(s) ==
  IF whilstTest(args, s.probes, s.error)
    THEN Commit([Invoke(s, "multiPathProbe") EXCEPT
                   !.probeArgs = s.probes])
    ELSE whilstEnd(s, NoError)

\* getMultiLimits: the task is started
getMultiLimits(s) ==
  IF isMultiSkipped(s.results.getMultiSupport, args)
    THEN Then(taskDone(s, "getMultiLimits"), getMultiPaths)
    ELSE Then([s EXCEPT !.task["getMultiLimits"] = "running"], whilst)

\* Mutant of auto: getMultiLimits does not wait for getSinglePath
autoWithoutSinglePath(s) ==
  IF /\ ~s.hasError
     /\ s.task["getMultiSupport"] = "done"
     /\ s.task["getMultiLimits"] = "idle"
    THEN getMultiLimits(s)
    ELSE Commit(s)

\* Mutant of auto: getMultiLimits does not wait for getMultiSupport
autoWithoutSupport(s) ==
  IF /\ ~s.hasError
     /\ s.task["getSinglePath"] = "done"
     /\ s.task["getMultiLimits"] = "idle"
    THEN getMultiLimits(s)
    ELSE Commit(s)

\* asyncAuto: getMultiLimits is started once both its dependencies are done
auto(s) ==
  IF /\ ~s.hasError
     /\ s.task["getMultiSupport"] = "done"
     /\ s.task["getSinglePath"] = "done"
     /\ s.task["getMultiLimits"] = "idle"
    THEN getMultiLimits(s)
    ELSE Commit(s)

\* ------------------------------------------------------------------------
\* Answers of the collaborators
\* ------------------------------------------------------------------------

WalletVersionErrors == {NoError, <<503, "GetWalletVersionFailure">>}

ExecuteProbeReplies ==
  {[err |-> ProbeExecutorError, res |-> [route |-> NoRoute]]}
    \cup {[err |-> NoError, res |-> [route |-> r]] :
            r \in SingleRoutes \cup {NoRoute}}

\* A probe, a soft failure, a hard error, or neither probe nor failure
ProberReplies ==
  {[err |-> ProberError, res |-> [probe |-> NoProbe, error |-> NoError]],
   [err |-> NoError, res |-> [probe |-> NoProbe, error |-> SoftFailure]],
   [err |-> NoError, res |-> [probe |-> NoProbe, error |-> NoError]]}
    \cup {[err |-> NoError, res |-> [probe |-> p, error |-> NoError]] :
            p \in ProbeChoices}

replyKind(reply) ==
  IF reply.err # NoError THEN "hard"
  ELSE IF reply.res.probe # NoProbe THEN "probe"
  ELSE IF reply.res.error # NoError THEN "soft"
  ELSE "empty"

RouteLists == UNION {[1..n -> MultiRoutes] : n \in 0..MaxRoutes}

SynthesizerReplies ==
  {[threw |-> TRUE, routes |-> <<>>]}
    \cup {[threw |-> FALSE, routes |-> rs] : rs \in RouteLists}

\* ------------------------------------------------------------------------
\* Actions
\* ------------------------------------------------------------------------

\* The request is made: validate runs, and getMultiSupport and getSinglePath
\* are started when it passes
Request ==
  /\ task["validate"] = "idle"
  /\ LET err == validate(args)
     IN IF err # NoError
          THEN Commit(taskFailed(Cur, "validate", err))
          ELSE Commit(
                 Invoke(
                   Invoke(
                     [taskDone(Cur, "validate") EXCEPT
                        !.task["getMultiSupport"] = "running",
                        !.task["getSinglePath"] = "running"],
                     "getWalletVersion"),
                   "executeProbe"))

\* getWalletVersion returns
WalletVersionReturn ==
  /\ inflight["getWalletVersion"] > 0
  /\ \E err \in WalletVersionErrors :
       LET s1 == Return(Cur, "getWalletVersion",
                        IF err = NoError THEN "ok" ELSE "err")
       IN Then([taskDone(s1, "getMultiSupport") EXCEPT
                  !.results.getMultiSupport = getMultiSupport(err)],
               auto)

\* executeProbe returns
ExecuteProbeReturn ==
  /\ inflight["executeProbe"] > 0
  /\ \E reply \in ExecuteProbeReplies :
       LET s1 == Return(Cur, "executeProbe",
                        IF reply.err = NoError THEN "ok" ELSE "err")
           r == getSinglePath(reply)
       IN IF r.err # NoError
            THEN Commit(taskFailed(s1, "getSinglePath", r.err))
            ELSE Then([taskDone(s1, "getSinglePath") EXCEPT
                         !.results.getSinglePath = r.value],
                      auto)

\* multiPathProbe returns
MultiPathProbeReturn ==
  /\ inflight["multiPathProbe"] > 0
  /\ \E reply \in ProberReplies :
       /\ replyKind(reply) = "empty" =>
            calls["multiPathProbe"] - 1 - Len(probes) < MaxEmptyResponses
       /\ \E it \in {whilstIteratee(reply, probes, error)} :
            \E s1 \in {[Return(Cur, "multiPathProbe", replyKind(reply))
                          EXCEPT !.probes = it.probes,
                                 !.error = it.error]} :
              IF it.err # NoError
                THEN whilstEnd(s1, it.err)
                ELSE whilst(s1)

\* getChannel returns for one of the channels (replies keeps that one of the
\* calls of asyncMap failed)
GetChannelReturn ==
  \E id \in pendingIds, err \in {NoError, ChannelError} :
    LET s1 == [Cur EXCEPT !.pendingIds = @ \ {id},
                          !.inflight["getChannel"] = @ - 1,
                          !.replies["getChannel"] =
                             IF err = NoError /\ @ # "err"
                               THEN "ok" ELSE "err"]
    IN IF task["getMultiPaths"] # "running" THEN Commit(s1)
       ELSE IF err # NoError
         THEN Commit(taskFailed(s1, "getMultiPaths", err))
       ELSE IF s1.pendingIds = {} THEN Commit(Invoke(s1, "getWalletInfo"))
       ELSE Commit(s1)

\* Mutant of multiPathPayment: the result task still runs after a throw
multiPathPaymentWithoutReturn(s, synth) ==
  LET s1 == Return(Invoke(s, "multiPathPayment"), "multiPathPayment",
                   IF synth.threw THEN "err" ELSE "ok")
  IN IF synth.threw
       THEN Then(taskFailed(s1, "getMultiPaths", SynthesizerError), result)
       ELSE Then([taskDone(s1, "getMultiPaths") EXCEPT
                    !.results.getMultiPaths =
                       [defined |-> TRUE, routes |-> synth.routes]],
                 result)

\* multiPathPayment is called with the channels and the height
multiPathPayment(s, synth) ==
  LET s1 == Return(Invoke(s, "multiPathPayment"), "multiPathPayment",
                   IF synth.threw THEN "err" ELSE "ok")
  IN IF synth.threw
       THEN Commit(taskFailed(s1, "getMultiPaths", SynthesizerError))
       ELSE Then([taskDone(s1, "getMultiPaths") EXCEPT
                    !.results.getMultiPaths =
                       [defined |-> TRUE, routes |-> synth.routes]],
                 result)

\* getWalletInfo returns
WalletInfoReturn ==
  /\ inflight["getWalletInfo"] > 0
  /\ \E err \in {NoError, WalletInfoError} :
       LET s1 == Return(Cur, "getWalletInfo",
                        IF err = NoError THEN "ok" ELSE "err")
       IN IF err # NoError
            THEN Commit(taskFailed(s1, "getMultiPaths", err))
            ELSE \E synth \in SynthesizerReplies :
                   multiPathPayment(s1, synth)

Next ==
  \/ Request
  \/ WalletVersionReturn
  \/ ExecuteProbeReturn
  \/ MultiPathProbeReturn
  \/ GetChannelReturn
  \/ WalletInfoReturn

Spec == Init /\ [][Next]_vars

\* Every collaborator call returns: a callback that can run does run
FairSpec == Spec /\ WF_vars(Next)

\* ------------------------------------------------------------------------
\* get_balance
\* ------------------------------------------------------------------------

MaxChannels == 2

none == 0

ChainBalances == {0, 16}

ChannelBalances == {8}

PendingBalances == {0, 4}

PendingChainBalances == {2}

Channels ==
  [is_partner_initiated : BOOLEAN, commit_transaction_fee : {1, 2}]

ChannelLists == UNION {[1..n -> Channels] : n \in 0..MaxChannels}

ChainBalanceError == <<503, "UnexpectedErrorGettingChainBalance">>

ChannelBalanceError == <<503, "UnexpectedErrorGettingChannelBalance">>

ChannelsError == <<503, "UnexpectedErrorGettingChannels">>

PendingChainBalanceError == <<503, "UnexpectedErrorGettingPendingBalance">>

\* What balanceFromTokens may return for a list of tokens
BalanceValues == {0, 1}

BalanceRejected(err) == [kind |-> "error", err |-> err, value |-> NoBalance]

BalanceResolved(res) == [kind |-> "result", err |-> NoError, value |-> res]

\* validate: the error of the request, if any
balanceValidate(a) ==
  IF NotStr(a.lnd) THEN <<400, "ExpectedLndToGetBalance">> ELSE NoError

\* balance: the commit fees of the channels that are not partner initiated
RECURSIVE reduceCommitFees(_, _)
reduceCommitFees(channels, n) ==
  IF n = 0 THEN 0
  ELSE reduceCommitFees(channels, n - 1)
         + (IF channels[n].is_partner_initiated = FALSE
              THEN channels[n].commit_transaction_fee ELSE 0)

futureCommitFees(getChannels) ==
  reduceCommitFees(getChannels.channels, Len(getChannels.channels))

\* Mutant of pendingChain: pending chain funds count as confirmed
pendingChainWhenConfirmed(a, getPending) ==
  IF a.is_offchain_only THEN none ELSE getPending.pending_chain_balance

\* balance: the pending chain tokens that count
pendingChain(a, getPending) ==
  IF a.is_offchain_only \/ a.is_confirmed
    THEN none ELSE getPending.pending_chain_balance

\* balance: the pending channel tokens that count
pendingChanToks(a, getChanBalance) ==
  IF a.is_onchain_only \/ a.is_confirmed
    THEN none ELSE getChanBalance.pending_balance

\* balance: the tokens that are summed
balances(a, r) ==
  <<IF a.is_offchain_only THEN none ELSE r.getChainBalance.chain_balance,
    IF a.is_onchain_only THEN none ELSE r.getChanBalance.channel_balance,
    IF a.is_onchain_only THEN none ELSE -futureCommitFees(r.getChannels),
    pendingChain(a, r.getPending),
    pendingChanToks(a, r.getChanBalance)>>

\* balance: the channel balance that is reported
channelBalance(r) ==
  r.getChanBalance.channel_balance - futureCommitFees(r.getChannels)

InitBalance ==
  /\ balanceArgs \in BalanceRequests
  /\ BalanceIdle
  /\ args = CHOOSE a \in Requests : TRUE
  /\ RoutesIdle

\* The request is made: validate runs, the lnd task passes the lnd object
\* on and the four queries are started
BalanceRequest ==
  /\ balanceTask["validate"] = "idle"
  /\ IF balanceValidate(balanceArgs) # NoError
       THEN /\ balanceTask' = [balanceTask EXCEPT !["validate"] = "failed"]
            /\ balanceHasError' = TRUE
            /\ balanceOutcome' =
                 BalanceRejected(balanceValidate(balanceArgs))
       ELSE /\ balanceTask' =
                 [n \in BalanceTaskNames |->
                    IF n \in {"validate", "lnd"} THEN "done"
                    ELSE IF n \in BalanceQueries THEN "running"
                    ELSE "idle"]
            /\ UNCHANGED <<balanceHasError, balanceOutcome>>
  /\ UNCHANGED <<balanceArgs, balanceResults, balanceTokens, routesVars>>

\* A query called back with an error: the request is rejected with the
\* first error and no further task is started
QueryFailed(q, err) ==
  /\ balanceTask[q] = "running"
  /\ balanceTask' = [balanceTask EXCEPT ![q] = "failed"]
  /\ balanceHasError' = TRUE
  /\ balanceOutcome' =
       IF balanceOutcome.kind = "pending"
         THEN BalanceRejected(err) ELSE balanceOutcome
  /\ UNCHANGED <<balanceArgs, balanceResults, balanceTokens, routesVars>>

\* A query called back with its result: the balance task runs when it was
\* the last of the four and none failed
QueryDone(q, res) ==
  /\ balanceTask[q] = "running"
  /\ balanceResults' = [balanceResults EXCEPT ![q] = res]
  /\ IF /\ ~balanceHasError
        /\ \A n \in BalanceQueries \ {q} : balanceTask[n] = "done"
       THEN /\ balanceTask' =
                 [balanceTask EXCEPT ![q] = "done", !["balance"] = "done"]
            /\ balanceTokens' = balances(balanceArgs, balanceResults')
            /\ \E balance \in BalanceValues :
                 balanceOutcome' =
                   BalanceResolved(
                     [balance |-> balance,
                      channel_balance |-> channelBalance(balanceResults')])
       ELSE /\ balanceTask' = [balanceTask EXCEPT ![q] = "done"]
            /\ UNCHANGED <<balanceTokens, balanceOutcome>>
  /\ UNCHANGED <<balanceArgs, balanceHasError, routesVars>>

\* asyncAuto: the callback of a query
QueryReturn(q, reply) ==
  IF reply.err # NoError
    THEN QueryFailed(q, reply.err)
    ELSE QueryDone(q, reply.res)

ChainBalanceReplies ==
  {[err |-> ChainBalanceError, res |-> [chain_balance |-> 0]]}
    \cup {[err |-> NoError, res |-> [chain_balance |-> tokens]] :
            tokens \in ChainBalances}

ChannelBalanceReplies ==
  {[err |-> ChannelBalanceError,
    res |-> [channel_balance |-> 0, pending_balance |-> 0]]}
    \cup {[err |-> NoError,
           res |-> [channel_balance |-> tokens, pending_balance |-> pending]] :
            tokens \in ChannelBalances, pending \in PendingBalances}

ChannelsReplies ==
  {[err |-> ChannelsError, res |-> [channels |-> <<>>]]}
    \cup {[err |-> NoError, res |-> [channels |-> channels]] :
            channels \in ChannelLists}

PendingChainBalanceReplies ==
  {[err |-> PendingChainBalanceError,
    res |-> [pending_chain_balance |-> 0]]}
    \cup {[err |-> NoError, res |-> [pending_chain_balance |-> tokens]] :
            tokens \in PendingChainBalances}

\* getChainBalance returns
ChainBalanceReturn ==
  /\ balanceTask["getChainBalance"] = "running"
  /\ \E reply \in ChainBalanceReplies :
       QueryReturn("getChainBalance", reply)

\* getChannelBalance returns
ChannelBalanceReturn ==
  /\ balanceTask["getChanBalance"] = "running"
  /\ \E reply \in ChannelBalanceReplies :
       QueryReturn("getChanBalance", reply)

\* getChannels returns
ChannelsReturn ==
  /\ balanceTask["getChannels"] = "running"
  /\ \E reply \in ChannelsReplies : QueryReturn("getChannels", reply)

\* getPendingChainBalance returns
PendingChainBalanceReturn ==
  /\ balanceTask["getPending"] = "running"
  /\ \E reply \in PendingChainBalanceReplies :
       QueryReturn("getPending", reply)

NextBalance ==
  \/ BalanceRequest
  \/ ChainBalanceReturn
  \/ ChannelBalanceReturn
  \/ ChannelsReturn
  \/ PendingChainBalanceReturn

SpecBalance == InitBalance /\ [][NextBalance]_vars

\* ------------------------------------------------------------------------
\* Types
\* ------------------------------------------------------------------------

Done == outcome.kind # "pending"

TypeOK ==
  /\ args \in Requests
  /\ task \in [TaskNames -> {"idle", "running", "done", "failed"}]
  /\ hasError \in BOOLEAN
  /\ outcome.kind \in {"pending", "error", "result"}
  /\ Len(probes) <= maxPaths(args)
  /\ inflight \in [Collaborators -> 0..2]
  /\ pendingIds \subseteq {"c1", "c2"}

\* ------------------------------------------------------------------------
\* Vocabulary of the properties
\* ------------------------------------------------------------------------

Unaffordable == <<503, "FailedToFindAPathToFundSwapOffchain">>

SinglePathError == <<503, "UnexpectedErrorFindingRouteToFundSwap">>

\* The path-count cap: max_paths when given, otherwise the default
Cap == IF args.max_paths = undefined THEN defaultMaxPaths ELSE args.max_paths

SingleRoute == results.getSinglePath.route

MultiPathRoutes == results.getMultiPaths.routes

\* The single-path probe answered with a route
SingleRouteFound ==
  replies["executeProbe"] = "ok" /\ SingleRoute # NoRoute

\* The single-path probe answered with a route that costs at most max_fee
SingleWithinBudget ==
  /\ SingleRouteFound
  /\ args.max_fee # undefined
  /\ SingleRoute.fee <= args.max_fee

\* The single-path branch has no route: the probe failed or found none
SingleBranchEmpty ==
  \/ replies["executeProbe"] = "err"
  \/ replies["executeProbe"] = "ok" /\ SingleRoute = NoRoute

\* The route synthesizer returned at least one route
MultiRoutesFound ==
  replies["multiPathPayment"] = "ok" /\ Len(MultiPathRoutes) > 0

\* The routes of the final selection: the multi-path set when it is not
\* empty, otherwise the single-path route when there is one
ChosenRoutes ==
  IF MultiRoutesFound THEN MultiPathRoutes
  ELSE IF SingleRouteFound THEN <<SingleRoute>>
  ELSE <<>>

ChosenFee == sumOf(Map(ChosenRoutes, feeOf))

\* Both branches completed and the fee of the selection is above max_fee
ChosenOverBudget ==
  /\ task["getMultiPaths"] = "done"
  /\ args.max_fee # undefined
  /\ ChosenFee > args.max_fee

\* The accumulator is skipped: no multi-path support or a pinned exit
AccumulatorSkipped ==
  replies["getWalletVersion"] = "err" \/ args.out_through # ""

\* The outcome of a request decided on the single-path route alone
SinglePathDecision ==
  IF SingleRoute # NoRoute
     /\ (args.max_fee = undefined \/ SingleRoute.fee <= args.max_fee)
    THEN Resolved([fee |-> SingleRoute.fee, routes |-> <<SingleRoute>>])
    ELSE Rejected(Unaffordable)

NoMultiPathSynthesis ==
  /\ calls["getChannel"] = 0
  /\ calls["getWalletInfo"] = 0
  /\ calls["multiPathPayment"] = 0

\* ------------------------------------------------------------------------
\* Properties
\* ------------------------------------------------------------------------

\* C1: a request that lacks a destination, an amount (tokens), a CLTV delta
\* or a fee budget (max_fee) fails with a class-400 error and no collaborator
\* is ever invoked.
C1_MissingArgumentRejected ==
  (\/ args.destination = ""
   \/ NotNum(args.tokens)
   \/ NotNum(args.cltv_delta)
   \/ args.max_fee = undefined)
    => /\ \A c \in Collaborators : calls[c] = 0
       /\ task["validate"] # "idle" =>
            outcome.kind = "error" /\ outcome.err[1] = 400

\* C2 as stated: whenever both branches produce zero routes, or the fee of
\* the selected routes is above max_fee, the request ends with the 503
\* FailedToFindAPathToFundSwapOffchain error and no routing result.
C2_AlwaysUnaffordableError ==
  (Done /\ ((SingleBranchEmpty /\ ~MultiRoutesFound) \/ ChosenOverBudget))
    => outcome = Rejected(Unaffordable)

\* C2 amended: whenever both branches produce zero routes, or the fee of the
\* selected routes is above max_fee, the request ends with an error and no
\* routing result; the error is the 503 FailedToFindAPathToFundSwapOffchain
\* error when the result task ran, otherwise it is the error of the task
\* that failed.
C2_NoResultWhenNoAffordableRoute ==
  ((SingleBranchEmpty /\ ~MultiRoutesFound) \/ ChosenOverBudget)
    => /\ Done => outcome.kind = "error"
       /\ task["result"] # "idle" => outcome = Rejected(Unaffordable)
       /\ (Done /\ task["result"] = "idle") =>
            \E n \in TaskNames \ {"result"} : task[n] = "failed"

\* C2 witness: both branches found routes and all of them are above max_fee
C2_Witness ==
  /\ task["result"] = "failed"
  /\ MultiRoutesFound
  /\ SingleRouteFound
  /\ args.max_fee # undefined
  /\ SingleRoute.fee > args.max_fee
  /\ ChosenOverBudget

\* C3: the routes returned are the multi-path set when it is not empty and
\* otherwise the single-path route; when the synthesizer returns no route
\* and the single-path route is within budget, the request succeeds with
\* exactly that route.
C3_FallBackToSinglePath ==
  /\ outcome.kind = "result" => outcome.routes = ChosenRoutes
  /\ (/\ replies["multiPathPayment"] = "ok"
      /\ Len(MultiPathRoutes) = 0
      /\ SingleWithinBudget)
       => outcome = Resolved([fee |-> SingleRoute.fee,
                              routes |-> <<SingleRoute>>])

\* C4: if the single-path probe gives a route within budget and the
\* accumulator is skipped, the multi-path prober and the synthesizer are
\* never invoked and the result is exactly the fee of the route and the
\* route.
C4_SkippedAccumulatorGivesSinglePath ==
  (SingleWithinBudget /\ AccumulatorSkipped)
    => /\ calls["multiPathProbe"] = 0
       /\ calls["multiPathPayment"] = 0
       /\ replies["getWalletVersion"] # "none" =>
            outcome = Resolved([fee |-> SingleRoute.fee,
                                routes |-> <<SingleRoute>>])

C4_Witness ==
  /\ SingleWithinBudget
  /\ AccumulatorSkipped
  /\ replies["getWalletVersion"] # "none"
  /\ outcome.kind = "result"

\* The loop ended with at least one probe and less capacity than the amount
CapacityShort ==
  /\ task["getMultiLimits"] = "done"
  /\ Len(probes) >= 1
  /\ sumOf(Map(probes, routeMaximumOf)) < args.tokens

\* C5: if the accumulator collects at least one probe and the summed
\* capacity of the probes is below the amount, the channel accessor and the
\* synthesizer are not invoked, multi-path gives no routes and the request
\* is decided on the single-path route alone.
C5_InsufficientCapacityFallsBack ==
  CapacityShort
    => /\ NoMultiPathSynthesis
       /\ task["getMultiPaths"] = "done"
       /\ ~results.getMultiPaths.defined
       /\ outcome = SinglePathDecision

C5_Witness == CapacityShort /\ outcome.kind = "result"

\* The prober answered with a hard error or a soft failure
ProberStopped == replies["multiPathProbe"] \in {"hard", "soft"}

\* C6 as stated: the number of accumulated probes and the number of prober
\* invocations never exceed the cap, and the prober is not invoked again
\* after its first answer with a hard error or a soft failure.
C6_InvocationsWithinCap ==
  [][/\ Len(probes') <= Cap
     /\ calls'["multiPathProbe"] <= Cap
     /\ ProberStopped => calls'["multiPathProbe"] = calls["multiPathProbe"]
    ]_vars

\* C6 amended: the number of accumulated probes never exceeds the cap, the
\* prober is only invoked while fewer probes than the cap are accumulated
\* (its invocations exceed the cap when it answers with neither probe nor
\* failure), and it is not invoked again after its first answer with a hard
\* error or a soft failure.
C6_ProbesWithinCap ==
  [][/\ Len(probes') <= Cap
     /\ calls'["multiPathProbe"] # calls["multiPathProbe"] =>
          /\ calls'["multiPathProbe"] = calls["multiPathProbe"] + 1
          /\ Len(probes') < Cap
     /\ ProberStopped => calls'["multiPathProbe"] = calls["multiPathProbe"]
    ]_vars

\* C6 witness: the loop ended at the cap after more invocations than the cap
C6_Witness ==
  /\ Len(probes) = Cap
  /\ calls["multiPathProbe"] > Cap
  /\ task["getMultiLimits"] = "done"

\* C7 as stated: a failure of the probe executor does not abort the request;
\* the multi-path branch still runs when supported and unpinned, and the
\* request succeeds with its routes when they are within budget.
C7_ProbeFailureDoesNotAbort ==
  replies["executeProbe"] = "err"
    => /\ outcome # Rejected(SinglePathError)
       /\ (replies["getWalletVersion"] = "ok" /\ args.out_through = "")
            => calls["multiPathProbe"] >= 1
       /\ (MultiRoutesFound /\ ~ChosenOverBudget)
            => outcome = Resolved([fee |-> ChosenFee,
                                   routes |-> MultiPathRoutes])

\* C7 amended: a failure of the probe executor aborts the request with the
\* 503 UnexpectedErrorFindingRouteToFundSwap error and the multi-path branch
\* never runs; an answer of the probe executor without a route does not
\* abort the request: the multi-path branch still runs when supported and
\* unpinned, and the request succeeds with its routes when there are some
\* and their fee is not above max_fee.
C7_ProbeFailureAborts ==
  /\ replies["executeProbe"] = "err"
       => /\ outcome = Rejected(SinglePathError)
          /\ task["getMultiLimits"] = "idle"
          /\ task["result"] = "idle"
          /\ calls["multiPathProbe"] = 0
          /\ NoMultiPathSynthesis
  /\ (replies["executeProbe"] = "ok" /\ SingleRoute = NoRoute)
       => /\ (replies["getWalletVersion"] = "ok" /\ args.out_through = "")
               => calls["multiPathProbe"] >= 1
          /\ (MultiRoutesFound /\ ~ChosenOverBudget)
               => outcome = Resolved([fee |-> ChosenFee,
                                      routes |-> MultiPathRoutes])

\* C7 witness: the probe executor failed with multi-path supported, unpinned
C7_Witness ==
  /\ replies["executeProbe"] = "err"
  /\ replies["getWalletVersion"] = "ok"
  /\ args.out_through = ""
  /\ Done

\* A collaborator of the multi-path branch answered with a hard error
MultiPathHardError ==
  \/ replies["multiPathProbe"] = "hard"
  \/ replies["getChannel"] = "err"
  \/ replies["getWalletInfo"] = "err"
  \/ replies["multiPathPayment"] = "err"

\* C8 as stated: a hard error in the multi-path branch aborts only that
\* branch; with a single-path route within budget the request succeeds with
\* that route.
C8_HardErrorFallsBack ==
  (MultiPathHardError /\ SingleWithinBudget)
    => outcome = Resolved([fee |-> SingleRoute.fee,
                           routes |-> <<SingleRoute>>])

\* C8 amended: a hard error of the multi-path prober, the channel accessor,
\* the block-height accessor or the synthesizer aborts the request: it is
\* rejected with that error and the result task never runs, also when the
\* single-path route is within budget.
C8_HardErrorAborts ==
  /\ replies["multiPathProbe"] = "hard" => outcome = Rejected(ProberError)
  /\ replies["getChannel"] = "err" => outcome = Rejected(ChannelError)
  /\ replies["getWalletInfo"] = "err" => outcome = Rejected(WalletInfoError)
  /\ replies["multiPathPayment"] = "err"
       => outcome = Rejected(SynthesizerError)
  /\ MultiPathHardError => task["result"] = "idle"

C8_Witness == MultiPathHardError /\ SingleWithinBudget /\ Done

\* The first answer of the prober is a soft failure
FirstProbeSoftFailure ==
  /\ replies["multiPathProbe"] = "soft"
  /\ calls["multiPathProbe"] = 1
  /\ Len(probes) = 0

\* C9 as stated: when the first answer of the prober is a soft failure, the
\* multi-path branch gives nothing and the request is decided on the
\* single-path route; the soft failure is never the error of the request.
C9_SoftFailureFallsBack ==
  FirstProbeSoftFailure
    => /\ outcome # Rejected(SoftFailure)
       /\ SingleWithinBudget
            => outcome = Resolved([fee |-> SingleRoute.fee,
                                   routes |-> <<SingleRoute>>])

\* C9 amended: when the first answer of the prober is a soft failure, the
\* accumulator fails with that reason and the request is rejected with the
\* soft failure as its error, also when the single-path route is within
\* budget; the multi-path synthesis and the result task never run.
C9_SoftFailureRejects ==
  FirstProbeSoftFailure
    => /\ outcome = Rejected(SoftFailure)
       /\ task["getMultiLimits"] = "failed"
       /\ task["result"] = "idle"
       /\ NoMultiPathSynthesis

C9_Witness == FirstProbeSoftFailure /\ SingleWithinBudget

\* C10: the capability check never fails the request: its task completes
\* without error whatever getWalletVersion answers, its result says that
\* multi-path is supported exactly when the query succeeded, and a request
\* whose query fails ends as one whose accumulator is skipped.
C10_CapabilityCheckNeverFails ==
  /\ task["getMultiSupport"] # "failed"
  /\ outcome.err \notin (WalletVersionErrors \ {NoError})
  /\ replies["getWalletVersion"] # "none"
       => /\ task["getMultiSupport"] = "done"
          /\ results.getMultiSupport.is_multi_supported
               = (replies["getWalletVersion"] = "ok")
  /\ replies["getWalletVersion"] = "err"
       => /\ calls["multiPathProbe"] = 0
          /\ NoMultiPathSynthesis
          /\ replies["executeProbe"] = "ok" => outcome = SinglePathDecision
          /\ replies["executeProbe"] = "err"
               => outcome = Rejected(SinglePathError)

C10_Witness ==
  /\ replies["getWalletVersion"] = "err"
  /\ replies["executeProbe"] = "ok"
  /\ args.out_through = ""
  /\ Done

\* The sum of the first n numbers of a list
RECURSIVE Total(_, _)
Total(f, n) == IF n = 0 THEN 0 ELSE f[n] + Total(f, n - 1)

\* C11: every routing result has at least one route, its fee is the sum of
\* the fees of exactly its routes and is not above max_fee, and its routes
\* are either the whole multi-path set or the one single-path route.
C11_ResultIsAffordableSelection ==
  outcome.kind = "result"
    => /\ Len(outcome.routes) > 0
       /\ outcome.fee
            = Total([i \in DOMAIN outcome.routes |-> outcome.routes[i].fee],
                    Len(outcome.routes))
       /\ args.max_fee # undefined => outcome.fee <= args.max_fee
       /\ \/ /\ replies["multiPathPayment"] = "ok"
             /\ outcome.routes = MultiPathRoutes
          \/ /\ SingleRouteFound
             /\ outcome.routes = <<SingleRoute>>

\* C11 witness: a result of two multi-path routes under a fee budget
C11_Witness ==
  /\ outcome.kind = "result"
  /\ Len(outcome.routes) = 2
  /\ args.max_fee # undefined

\* A soft failure was answered after at least one probe was accumulated
SoftFailureAfterProbes ==
  replies["multiPathProbe"] = "soft" /\ Len(probes) >= 1

\* C12: a soft failure answered after at least one probe was accumulated
\* ends only the loop: the accumulator succeeds and reports every probe
\* collected, and the soft failure does not fail the accumulator or the
\* request.
C12_SoftFailureEndsOnlyTheLoop ==
  SoftFailureAfterProbes
    => /\ task["getMultiLimits"] = "done"
       /\ results.getMultiLimits.defined
       /\ Len(results.getMultiLimits.probes) = Len(probes)
       /\ \A i \in DOMAIN probes :
            results.getMultiLimits.probes[i].channels = probes[i].success
       /\ inflight["multiPathProbe"] = 0
       /\ outcome # Rejected(SoftFailure)

C12_Witness == SoftFailureAfterProbes /\ outcome.kind = "result"

\* The accumulator succeeded
AccumulatorSucceeded ==
  task["getMultiLimits"] = "done" /\ results.getMultiLimits.defined

\* C13: when the accumulator succeeds, routes_max is the sum of the
\* route_maximum of the accumulated probes, latency_ms the sum of their
\* latencies, and the summaries list has one entry per probe, in order, with
\* its channels, relays and liquidity (its route_maximum).
C13_AccumulatorSummary ==
  AccumulatorSucceeded
    => LET limits == results.getMultiLimits
       IN /\ limits.routes_max
               = Total([i \in DOMAIN probes |-> probes[i].route_maximum],
                       Len(probes))
          /\ limits.latency_ms
               = Total([i \in DOMAIN probes |-> probes[i].latency_ms],
                       Len(probes))
          /\ Len(limits.probes) = Len(probes)
          /\ \A i \in DOMAIN probes :
               limits.probes[i]
                 = [channels |-> probes[i].success,
                    liquidity |-> probes[i].route_maximum,
                    relays |-> probes[i].relays]

\* C13 witness: the accumulator succeeded with two different probes
C13_Witness ==
  /\ AccumulatorSucceeded
  /\ Len(probes) = 2
  /\ probes[1] # probes[2]

\* C14: the loop is sequential: at most one multiPathProbe call is in
\* flight, a call starts only once the call before it returned, every call
\* is given exactly the probes accepted so far, and the list of probes only
\* grows by one probe at the return of a call.
C14_SequentialLoop ==
  [][/\ inflight'["multiPathProbe"] <= 1
     /\ calls'["multiPathProbe"] # calls["multiPathProbe"]
          => /\ calls'["multiPathProbe"] = calls["multiPathProbe"] + 1
             /\ inflight'["multiPathProbe"] = 1
             /\ calls["multiPathProbe"] > 0 => inflight["multiPathProbe"] = 1
     /\ inflight'["multiPathProbe"] = 1 => probeArgs' = probes'
     /\ probes' # probes
          => /\ inflight["multiPathProbe"] = 1
             /\ replies'["multiPathProbe"] = "probe"
             /\ \E p \in ProbeChoices : probes' = Append(probes, p)
    ]_vars

\* C14 witness: the third call is in flight with the two probes accepted
C14_Witness ==
  /\ calls["multiPathProbe"] = 3
  /\ inflight["multiPathProbe"] = 1
  /\ Len(probeArgs) = 2
  /\ probeArgs = probes

\* getWalletVersion and executeProbe both returned
BothReturned ==
  replies["getWalletVersion"] # "none" /\ replies["executeProbe"] # "none"

\* What holds of the two first tasks and of the result task in every state
StartAndJoin ==
  /\ (calls["getWalletVersion"] > 0 \/ calls["executeProbe"] > 0)
       => task["validate"] = "done"
  /\ task["result"] # "idle"
       => /\ task["getSinglePath"] = "done"
          /\ task["getMultiPaths"] = "done"
          /\ BothReturned
  /\ replies["executeProbe"] = "err" => outcome = Rejected(SinglePathError)
  /\ (task["validate"] = "done" /\ replies["executeProbe"] # "err"
      /\ ~BothReturned)
       => /\ outcome = Pending
          /\ task["getMultiLimits"] = "idle"
          /\ calls["multiPathProbe"] = 0
  /\ (replies["executeProbe"] = "ok" /\ BothReturned)
       => /\ task["getMultiLimits"] # "idle"
          /\ AccumulatorSkipped => outcome = SinglePathDecision
          /\ ~AccumulatorSkipped => calls["multiPathProbe"] >= 1

\* C15: the capability check and the single-path probe are started only
\* after validation succeeds and complete in either order; the result task
\* runs at most once and only after the single-path and the multi-path
\* tasks completed; what the request does once both returned depends on
\* their answers only, not on their order.
C15_OrderIndependentJoin ==
  /\ []StartAndJoin
  /\ [][task["result"] # "idle"
          => task'["result"] = task["result"] /\ outcome' = outcome]_vars

\* C15 witness: the single-path probe returned before the capability query
C15_Witness ==
  /\ replies["executeProbe"] = "ok"
  /\ replies["getWalletVersion"] = "none"
  /\ inflight["getWalletVersion"] = 1
  /\ outcome = Pending

\* A call of multiPathProbe returned and the loop started the next call
NextRound ==
  /\ calls["multiPathProbe"] >= 1
  /\ calls'["multiPathProbe"] = calls["multiPathProbe"] + 1

MultiPathBranchUntouched ==
  /\ task["getMultiLimits"] = "idle"
  /\ task["getMultiPaths"] = "idle"
  /\ calls["multiPathProbe"] = 0
  /\ NoMultiPathSynthesis

\* C17: the multi-path prober is only invoked once the single-path probe
\* has returned without error; as long as the single-path probe has not
\* returned, and for good when it failed, the accumulator, the channel
\* lookups and the route synthesizer are not invoked.
C17_ProberAfterSinglePath ==
  /\ [][calls'["multiPathProbe"] > calls["multiPathProbe"]
          => replies'["executeProbe"] = "ok"]_vars
  /\ [](replies["executeProbe"] # "ok" => MultiPathBranchUntouched)
  /\ [][replies["executeProbe"] = "err"
          => replies'["executeProbe"] = "err"]_vars

\* C17 witness: multi-path is supported and unpinned, the capability query
\* has returned and the single-path probe has not
C17_Witness ==
  /\ replies["getWalletVersion"] = "ok"
  /\ args.out_through = ""
  /\ replies["executeProbe"] = "none"
  /\ inflight["executeProbe"] = 1

\* The multi-path routes cost more than max_fee
MultiRoutesOverBudget ==
  /\ args.max_fee # undefined
  /\ sumOf(Map(MultiPathRoutes, feeOf)) > args.max_fee

\* C18: once the synthesizer returned a non-empty set of routes, the
\* request is decided on that set alone: it is rejected with the 503
\* FailedToFindAPathToFundSwapOffchain error when the set costs more than
\* max_fee, also when the single-path route costs at most max_fee, and
\* resolves with exactly that set otherwise.
C18_MultiPathSetIsOnlyCandidate ==
  MultiRoutesFound
    => IF MultiRoutesOverBudget
         THEN outcome = Rejected(Unaffordable)
         ELSE /\ outcome.kind = "result"
              /\ outcome.routes = MultiPathRoutes

\* C18 witness: the multi-path set costs more than max_fee and the
\* single-path route does not
C18_Witness ==
  /\ MultiRoutesFound
  /\ MultiRoutesOverBudget
  /\ SingleWithinBudget
  /\ Done

\* Some task called back with an error
SomeTaskFailed == \E n \in TaskNames : task[n] = "failed"

\* No call is in flight
Quiescent ==
  /\ \A c \in Collaborators : inflight[c] = 0
  /\ pendingIds = {}

\* C19: the outcome of a request is set once and never changes; it is an
\* error exactly when some task failed and a result only when the result
\* task completed; once a task failed no task is started, no collaborator
\* is invoked and no result is delivered; a request whose calls all
\* returned has an outcome.
C19_ExactlyOneOutcome ==
  /\ [][Done => outcome' = outcome]_vars
  /\ [](outcome.kind = "error" <=> SomeTaskFailed)
  /\ [](outcome.kind = "result" <=> task["result"] = "done")
  /\ [][SomeTaskFailed
          => /\ calls' = calls
             /\ \A n \in TaskNames : task[n] = "idle" => task'[n] = "idle"
             /\ outcome'.kind = "error"]_vars
  /\ []((task["validate"] # "idle" /\ Quiescent) => Done)

\* C19 witness: a call returns after the request was rejected
C19_Witness ==
  /\ outcome.kind = "error"
  /\ replies["executeProbe"] = "err"
  /\ replies["getWalletVersion"] = "ok"
  /\ task["getMultiSupport"] = "done"

\* Every query of the balance request answered without error
AllQueriesSucceeded == \A q \in BalanceQueries : balanceTask[q] = "done"

\* Some query of the balance request answered with an error
SomeQueryFailed == \E q \in BalanceQueries : balanceTask[q] = "failed"

\* The commit fees of the first n channels that are not partner initiated
RECURSIVE InitiatorFees(_, _)
InitiatorFees(channels, n) ==
  IF n = 0 THEN 0
  ELSE InitiatorFees(channels, n - 1)
         + (IF channels[n].is_partner_initiated
              THEN 0 ELSE channels[n].commit_transaction_fee)

InitiatorBurden ==
  InitiatorFees(balanceResults.getChannels.channels,
                Len(balanceResults.getChannels.channels))

\* C20: the balance task runs, and a balance is reported, only after the
\* four queries all succeeded, and a failing query rejects the request with
\* no balance; the reported channel_balance is the channel balance minus the
\* commit fees of the channels that are not partner initiated, whatever
\* the flags; the tokens summed are the chain balance, the channel balance,
\* minus the commit fees, the pending chain balance and the pending channel
\* balance, with zero in place of the chain amounts under is_offchain_only,
\* of the channel amounts under is_onchain_only and of both pending amounts
\* under is_confirmed.
C20_BalanceAfterAllQueries ==
  /\ (balanceTask["balance"] # "idle" \/ balanceOutcome.kind = "result")
       => AllQueriesSucceeded
  /\ AllQueriesSucceeded => balanceOutcome.kind = "result"
  /\ SomeQueryFailed
       => /\ balanceOutcome.kind = "error"
          /\ balanceOutcome.value = NoBalance
          /\ balanceTokens = <<>>
  /\ balanceOutcome.kind = "result"
       => /\ balanceOutcome.value.channel_balance
               = balanceResults.getChanBalance.channel_balance
                   - InitiatorBurden
          /\ Len(balanceTokens) = 5
          /\ balanceTokens[1] =
               IF balanceArgs.is_offchain_only THEN 0
               ELSE balanceResults.getChainBalance.chain_balance
          /\ balanceTokens[2] =
               IF balanceArgs.is_onchain_only THEN 0
               ELSE balanceResults.getChanBalance.channel_balance
          /\ balanceTokens[3] =
               IF balanceArgs.is_onchain_only THEN 0 ELSE -InitiatorBurden
          /\ balanceTokens[4] =
               IF balanceArgs.is_offchain_only \/ balanceArgs.is_confirmed
                 THEN 0
                 ELSE balanceResults.getPending.pending_chain_balance
          /\ balanceTokens[5] =
               IF balanceArgs.is_onchain_only \/ balanceArgs.is_confirmed
                 THEN 0
                 ELSE balanceResults.getChanBalance.pending_balance

\* C20 witness: confirmed funds only, with pending amounts and the commit
\* fee of a channel that is not partner initiated
C20_Witness ==
  /\ balanceOutcome.kind = "result"
  /\ balanceArgs.is_confirmed
  /\ ~balanceArgs.is_onchain_only
  /\ ~balanceArgs.is_offchain_only
  /\ balanceResults.getChanBalance.pending_balance > 0
  /\ balanceResults.getPending.pending_chain_balance > 0
  /\ InitiatorBurden > 0

====
